---- MODULE Spec2Model ----
(***************************************************************************)
(* FalconDefender: the scan coordinator (falcon/tui_integration.py,        *)
(* ScannerAdapter, with Scanner.scan_path from falcon/scanner.py and the   *)
(* scheduled job of falcon/scheduled_tasks.py) and the quarantine store    *)
(* (falcon/quarantine.py, QuarantineManager).                              *)
(*                                                                         *)
(* Spec      : the coordinator.  The asyncio loop runs one coroutine       *)
(*             segment at a time; the event queue is unbounded             *)
(*             (app.py:845), so `await event_queue.put` never suspends and *)
(*             every control call is one atomic step.  The only real       *)
(*             suspension point is the await of run_in_executor in         *)
(*             _run_scan; scan_path itself runs on an executor thread.     *)
(* StoreSpec : the quarantine store, its calls run by worker threads       *)
(*             statement by statement.                                     *)
(* SeqStoreSpec : the store used by one caller, call after call.           *)
(* ScanSpec  : Scanner.scan_path in detail: the enumeration with the       *)
(*             incremental skip, one _scan_file job per file on the pool's *)
(*             threads (each calling quarantine_file for its matches), the *)
(*             fold of the results and the update of last_scan_times.      *)
(* IncrSpec  : ScanSpec's sessions with quarantine_matches off.            *)
(* RulesSpec : scan sessions while the rule manager reloads its rules.     *)
(* FaultSpec : scan sessions whose files vanish or fail under the worker.  *)
(* CompilerSpec : YaraManager (falcon/yara_manager.py): the fingerprint of *)
(*             the rule sources, compilation, and the compiled-rules cache *)
(*             with its checksum sidecar.                                  *)
(* FilterSpec : Scanner._is_file_scannable applied to one candidate.       *)
(***************************************************************************)
EXTENDS Integers, Sequences, FiniteSets, TLC

\* ------------------------------------------------------------------ bounds
MaxTasks == 2      \* scan sessions (asyncio tasks) a behaviour may create
MaxCalls == 4      \* control calls (start/pause/resume/cancel) of a behaviour
NFiles   == 1      \* files a scan target may hold
NThreads == 2      \* threads calling the quarantine store
MaxOps   == 3      \* quarantine-store calls of a behaviour
MaxClock == 1      \* clock readings 0..MaxClock
MaxScans == 2      \* scan_path calls of a behaviour
MaxHits  == 2      \* rules a file may match
MaxMtime == 1      \* modification times 0..MaxMtime
MaxSizeMb == 1     \* size ceilings 1..MaxSizeMb (megabytes)
MaxEdits == 1      \* changes made to the rule sources in a behaviour
MaxLoads == 3      \* calls made to the rule manager in a behaviour

VARIABLES
  \* --- ScannerAdapter (tui_integration.py:171-185)
  state,        \* self.state: "Idle" | "Scanning" | "Paused" | "Error"
  pause_event,  \* self.pause_event is set
  cancel_event, \* self.cancel_event is set
  scan_task,    \* self.scan_task: 0 (None) or the id of the latest task
  stats,        \* self.stats (the counts)
  events,       \* self.event_queue: the events put so far, in order
  tasks,        \* the _run_scan tasks and the scan_path run each one started
  sched,        \* the scheduler thread's run_scan_task: "idle" | "running"
  lastCall,     \* the last control call and whether it was accepted
  \* --- QuarantineManager (quarantine.py) and the files it touches
  files,        \* the files at the original paths: path -> content
  qfiles,       \* the files in quarantine_dir: storage path -> content
  records,      \* table quarantine_files, row i has id i
  clock,        \* what datetime.now() returns
  thr,          \* the threads running store calls, with their locals
  nOps,         \* store calls made so far
  \* --- Scanner (scanner.py) and what it reads of the files
  session,      \* the scan_path call in progress (or the last one): its frame
  last_scan_times, \* self.last_scan_times: path -> mtime, NoEntry if absent
  mtime,        \* st_mtime of the files at the original paths
  props,        \* per file: does the filter accept it, how many rules hit
  job,          \* the _scan_file futures of the session, one per file
  nScans,       \* scan_path calls made so far
  \* --- YaraManager (yara_manager.py) and the Scanner's copy
  yara_rules,   \* YaraManager._rules: the active rule set, "none" if None
  scanner_rules, \* Scanner.rules, taken from get_rules() in __init__
  \* --- YaraManager (yara_manager.py) and its rules directory
  tree,         \* the rule sources: the content of each file, "none" if absent
  artifact,     \* compiled_rules.yarac on disk
  sidecar,      \* compiled_rules.yarac.checksum on disk
  mgr,          \* the manager: _rules, _rules_checksum, where its call is
  nEdits,       \* changes made to the rule sources so far
  \* --- Scanner._is_file_scannable as a function
  cand,         \* a candidate file and the configuration it is judged under
  verdict       \* what _is_file_scannable returned for cand

coordVars == <<state, pause_event, cancel_event, scan_task, stats, events,
               tasks, sched, lastCall>>

storeVars == <<files, qfiles, records, clock, thr, nOps>>

scanVars == <<session, last_scan_times, mtime, props, job, nScans>>

compilerVars == <<tree, artifact, sidecar, mgr, nEdits>>

ruleVars == <<yara_rules, scanner_rules, tree, artifact, sidecar, mgr, nEdits>>

filterVars == <<cand, verdict>>

vars == <<state, pause_event, cancel_event, scan_task, stats, events,
          tasks, sched, lastCall, files, qfiles, records, clock, thr, nOps,
          session, last_scan_times, mtime, props, job, nScans,
          yara_rules, scanner_rules, tree, artifact, sidecar, mgr, nEdits,
          cand, verdict>>

TaskIds == 1..MaxTasks

\* the maxsize of the event channel, asyncio.Queue() (0: no limit)
QueueMaxsize == 0

ZeroStats == [scanned |-> 0, total |-> 0, matches |-> 0]

NoTask == [pc |-> "none", cancelReq |-> FALSE, run |-> "none",
           files |-> 0, submitted |-> FALSE, folded |-> 0, matches |-> 0]

Event(type, sess) == [type |-> type, sess |-> sess]

\* n copies of event e
RECURSIVE Repeat(_, _)
Repeat(e, n) == IF n = 0 THEN <<>> ELSE <<e>> \o Repeat(e, n - 1)

nCreated == Cardinality({t \in TaskIds : tasks[t].pc # "none"})

Called(op, ok) == lastCall' = [op |-> op, ok |-> ok, n |-> lastCall.n + 1]

CoordInit ==
  /\ state = "Idle"
  /\ pause_event = FALSE
  /\ cancel_event = FALSE
  /\ scan_task = 0
  /\ stats = ZeroStats
  /\ events = <<>>
  /\ tasks = [t \in TaskIds |-> NoTask]
  /\ sched = "idle"
  /\ lastCall = [op |-> "none", ok |-> TRUE, n |-> 0]

\* ------------------------------------------------------- ScannerAdapter

\* mutant of StartRejected: only a running scan blocks a new one
StartRejected_ScanningOnly == state = "Scanning"

\* start_scan's rejection test (line 193)
StartRejected == state # "Idle"

\* start_scan(path, quarantine_matches, incremental); nf is the number of
\* files scan_path will find under path (0: empty or missing target).
StartScan(nf) ==
  /\ lastCall.n < MaxCalls
  /\ IF StartRejected
     THEN /\ events' = Append(events, Event("error", 0))
          /\ Called("start", FALSE)
          /\ UNCHANGED <<state, pause_event, cancel_event, scan_task, stats,
                         tasks, sched>>
     ELSE /\ nCreated < MaxTasks
          /\ state' = "Scanning"
          /\ pause_event' = FALSE
          /\ cancel_event' = FALSE
          /\ stats' = ZeroStats
          /\ events' = Append(events, Event("info", 0))
          /\ scan_task' = nCreated + 1
          /\ tasks' = [tasks EXCEPT ![nCreated + 1] =
                          [NoTask EXCEPT !.pc = "created", !.files = nf]]
          /\ Called("start", TRUE)
          /\ UNCHANGED sched
  /\ UNCHANGED <<storeVars, scanVars>>
  /\ UNCHANGED <<ruleVars, filterVars>>

\* pause()
Pause ==
  /\ lastCall.n < MaxCalls
  /\ IF state = "Scanning"
     THEN /\ state' = "Paused"
          /\ pause_event' = TRUE
          /\ events' = Append(events, Event("info", 0))
          /\ Called("pause", TRUE)
     ELSE /\ Called("pause", FALSE)
          /\ UNCHANGED <<state, pause_event, events>>
  /\ UNCHANGED <<cancel_event, scan_task, stats, tasks, sched>>
  /\ UNCHANGED <<storeVars, scanVars>>
  /\ UNCHANGED <<ruleVars, filterVars>>

\* resume()
Resume ==
  /\ lastCall.n < MaxCalls
  /\ IF state = "Paused"
     THEN /\ state' = "Scanning"
          /\ pause_event' = FALSE
          /\ events' = Append(events, Event("info", 0))
          /\ Called("resume", TRUE)
     ELSE /\ Called("resume", FALSE)
          /\ UNCHANGED <<state, pause_event, events>>
  /\ UNCHANGED <<cancel_event, scan_task, stats, tasks, sched>>
  /\ UNCHANGED <<storeVars, scanVars>>
  /\ UNCHANGED <<ruleVars, filterVars>>

\* mutant of Cancel: a cancel() with nothing to cancel reports an error
Cancel_ErrorWhenIdle ==
  /\ lastCall.n < MaxCalls
  /\ IF state \in {"Scanning", "Paused"}
     THEN /\ cancel_event' = TRUE
          /\ tasks' = IF scan_task # 0 /\ tasks[scan_task].pc # "finished"
                      THEN [tasks EXCEPT ![scan_task].cancelReq = TRUE]
                      ELSE tasks
          /\ state' = "Idle"
          /\ events' = Append(events, Event("info", 0))
          /\ Called("cancel", TRUE)
     ELSE /\ Called("cancel", FALSE)
          /\ events' = Append(events, Event("error", 0))
          /\ UNCHANGED <<cancel_event, tasks, state>>
  /\ UNCHANGED <<pause_event, scan_task, stats, sched>>
  /\ UNCHANGED <<storeVars, scanVars>>
  /\ UNCHANGED <<ruleVars, filterVars>>

\* cancel(): Task.cancel() on a task that is not done makes its next step
\* raise CancelledError; the executor thread is not interrupted.
Cancel ==
  /\ lastCall.n < MaxCalls
  /\ IF state \in {"Scanning", "Paused"}
     THEN /\ cancel_event' = TRUE
          /\ tasks' = IF scan_task # 0 /\ tasks[scan_task].pc # "finished"
                      THEN [tasks EXCEPT ![scan_task].cancelReq = TRUE]
                      ELSE tasks
          /\ state' = "Idle"
          /\ events' = Append(events, Event("info", 0))
          /\ Called("cancel", TRUE)
     ELSE /\ Called("cancel", FALSE)
          /\ UNCHANGED <<cancel_event, tasks, state, events>>
  /\ UNCHANGED <<pause_event, scan_task, stats, sched>>
  /\ UNCHANGED <<storeVars, scanVars>>
  /\ UNCHANGED <<ruleVars, filterVars>>

\* ------------------------------------------------------------ _run_scan

\* The task's first step: up to the await of run_in_executor (lines 222-233).
\* A task cancelled before its first step never enters the coroutine body.
TaskStart(t) ==
  /\ tasks[t].pc = "created"
  /\ tasks' = IF tasks[t].cancelReq
              THEN [tasks EXCEPT ![t].pc = "finished"]
              ELSE [tasks EXCEPT ![t].pc = "awaiting", ![t].run = "running"]
  /\ UNCHANGED <<state, pause_event, cancel_event, scan_task, stats, events,
                 sched, lastCall>>
  /\ UNCHANGED <<storeVars, scanVars>>
  /\ UNCHANGED <<ruleVars, filterVars>>

\* mutant of TaskDone: the results are published although the task was
\* cancelled
TaskDone_IgnoresCancel(t) ==
  /\ tasks[t].pc = "awaiting"
  /\ tasks[t].run = "returned"
  /\ stats' = [scanned |-> tasks[t].folded, total |-> tasks[t].folded,
               matches |-> tasks[t].matches]
  /\ events' = events \o Repeat(Event("match", t), tasks[t].matches)
                      \o <<Event("progress", t), Event("done", t)>>
  /\ state' = "Idle"
  /\ tasks' = [tasks EXCEPT ![t].pc = "finished"]
  /\ UNCHANGED <<pause_event, cancel_event, scan_task, sched, lastCall>>
  /\ UNCHANGED <<storeVars, scanVars>>
  /\ UNCHANGED <<ruleVars, filterVars>>

\* scan_path returned: lines 235-270
TaskDone(t) ==
  /\ tasks[t].pc = "awaiting"
  /\ ~tasks[t].cancelReq
  /\ tasks[t].run = "returned"
  /\ stats' = [scanned |-> tasks[t].folded, total |-> tasks[t].folded,
               matches |-> tasks[t].matches]
  /\ events' = events \o Repeat(Event("match", t), tasks[t].matches)
                      \o <<Event("progress", t), Event("done", t)>>
  /\ state' = "Idle"
  /\ tasks' = [tasks EXCEPT ![t].pc = "finished"]
  /\ UNCHANGED <<pause_event, cancel_event, scan_task, sched, lastCall>>
  /\ UNCHANGED <<storeVars, scanVars>>
  /\ UNCHANGED <<ruleVars, filterVars>>

\* the task was cancelled while awaiting: lines 272-278
TaskCancelled(t) ==
  /\ tasks[t].pc = "awaiting"
  /\ tasks[t].cancelReq
  /\ events' = Append(events, Event("info", t))
  /\ state' = "Idle"
  /\ tasks' = [tasks EXCEPT ![t].pc = "finished"]
  /\ UNCHANGED <<pause_event, cancel_event, scan_task, stats, sched, lastCall>>
  /\ UNCHANGED <<storeVars, scanVars>>
  /\ UNCHANGED <<ruleVars, filterVars>>

\* scan_path raised: lines 280-286
TaskError(t) ==
  /\ tasks[t].pc = "awaiting"
  /\ ~tasks[t].cancelReq
  /\ tasks[t].run = "raised"
  /\ events' = Append(events, Event("error", t))
  /\ state' = "Error"
  /\ tasks' = [tasks EXCEPT ![t].pc = "finished"]
  /\ UNCHANGED <<pause_event, cancel_event, scan_task, stats, sched, lastCall>>
  /\ UNCHANGED <<storeVars, scanVars>>
  /\ UNCHANGED <<ruleVars, filterVars>>

\* ---------------------------------------- Scanner.scan_path on its thread

\* scan_path has listed the files and submits them all to the worker pool
\* (line 146).  scan_path reads neither pause_event nor cancel_event.
RunSubmit(t) ==
  /\ tasks[t].run = "running"
  /\ tasks[t].files > 0
  /\ ~tasks[t].submitted
  /\ tasks' = [tasks EXCEPT ![t].submitted = TRUE]
  /\ UNCHANGED <<state, pause_event, cancel_event, scan_task, stats, events,
                 sched, lastCall>>
  /\ UNCHANGED <<storeVars, scanVars>>
  /\ UNCHANGED <<ruleVars, filterVars>>

\* One file's result is folded into the aggregate (lines 148-151); the file
\* had m rule hits.
RunFold(t, m) ==
  /\ tasks[t].run = "running"
  /\ tasks[t].submitted
  /\ tasks[t].folded < tasks[t].files
  /\ tasks' = [tasks EXCEPT ![t].folded = @ + 1, ![t].matches = @ + m]
  /\ UNCHANGED <<state, pause_event, cancel_event, scan_task, stats, events,
                 sched, lastCall>>
  /\ UNCHANGED <<storeVars, scanVars>>
  /\ UNCHANGED <<ruleVars, filterVars>>

\* scan_path returns its summary (line 159; line 144 for a missing target)
RunReturn(t) ==
  /\ tasks[t].run = "running"
  /\ tasks[t].folded = tasks[t].files
  /\ tasks' = [tasks EXCEPT ![t].run = "returned"]
  /\ UNCHANGED <<state, pause_event, cancel_event, scan_task, stats, events,
                 sched, lastCall>>
  /\ UNCHANGED <<storeVars, scanVars>>
  /\ UNCHANGED <<ruleVars, filterVars>>

\* a file's future raises (stat of a vanished file in _is_file_scannable,
\* line 54, is outside _scan_file's try) and future.result() re-raises it
RunRaise(t) ==
  /\ tasks[t].run = "running"
  /\ tasks[t].submitted
  /\ tasks[t].folded < tasks[t].files
  /\ tasks' = [tasks EXCEPT ![t].run = "raised"]
  /\ UNCHANGED <<state, pause_event, cancel_event, scan_task, stats, events,
                 sched, lastCall>>
  /\ UNCHANGED <<storeVars, scanVars>>
  /\ UNCHANGED <<ruleVars, filterVars>>

\* ------------------------------------------------ scheduled_tasks.py

\* run_scan_task calls the registered Scanner's scan_path on a scheduler
\* thread (line 34); it does not consult the adapter.
SchedStart ==
  /\ sched = "idle"
  /\ sched' = "running"
  /\ UNCHANGED <<state, pause_event, cancel_event, scan_task, stats, events,
                 tasks, lastCall>>
  /\ UNCHANGED <<storeVars, scanVars>>
  /\ UNCHANGED <<ruleVars, filterVars>>

SchedEnd ==
  /\ sched = "running"
  /\ sched' = "idle"
  /\ UNCHANGED <<state, pause_event, cancel_event, scan_task, stats, events,
                 tasks, lastCall>>
  /\ UNCHANGED <<storeVars, scanVars>>
  /\ UNCHANGED <<ruleVars, filterVars>>

CoordNext ==
  \/ \E nf \in 0..NFiles : StartScan(nf)
  \/ Pause
  \/ Resume
  \/ Cancel
  \/ \E t \in TaskIds : TaskStart(t)
  \/ \E t \in TaskIds : TaskDone(t)
  \/ \E t \in TaskIds : TaskCancelled(t)
  \/ \E t \in TaskIds : TaskError(t)
  \/ \E t \in TaskIds : RunSubmit(t)
  \/ \E t \in TaskIds, m \in 0..1 : RunFold(t, m)
  \/ \E t \in TaskIds : RunReturn(t)
  \/ \E t \in TaskIds : RunRaise(t)
  \/ SchedStart
  \/ SchedEnd

\* ===================================================== QuarantineManager

\* Two files of the same name in different directories.
FileA == [dir |-> "a", name |-> "x"]
FileB == [dir |-> "b", name |-> "x"]
Orig == {FileA, FileB}
NoFile == [dir |-> "none", name |-> "none"]

\* A storage path is quarantine_dir / "<name>_<timestamp>".
Stor == {"x"} \X (0..MaxClock)
NoPath == <<"none", 0>>

\* File contents; "none": no file at the path.
ContentOf(f) == IF f = FileA THEN "cA" ELSE "cB"

\* the content of a file that someone else puts at an original path
Foreign == "cNew"

Threads == 1..NThreads
RecIds == 1..MaxOps

\* A thread of the store: the call it is in, its locals (at: quarantined_at,
\* gone: the is_file() of line 135 was false), how the call ended, and two
\* observer's notes the code does not keep (raced, and why: what made a
\* restore or delete fail).
IdleThr == [op |-> "none", pc |-> "idle", file |-> NoFile, id |-> 0,
            opath |-> NoFile, qpath |-> NoPath, at |-> 0, gone |-> FALSE,
            res |-> "none", raced |-> FALSE, why |-> "none"]

StoreInit ==
  /\ files = [f \in Orig |-> ContentOf(f)]
  /\ qfiles = [p \in Stor |-> "none"]
  /\ records = <<>>
  /\ clock = 0
  /\ thr = [i \in Threads |-> IdleThr]
  /\ nOps = 0

\* time passes between two readings of the clock (or does not)
Tick ==
  /\ clock < MaxClock
  /\ clock' = clock + 1
  /\ UNCHANGED <<files, qfiles, records, thr, nOps>>
  /\ UNCHANGED <<coordVars, scanVars>>
  /\ UNCHANGED <<ruleVars, filterVars>>

\* Another actor (a user, the program that dropped the file) creates a file
\* at a vacated original path; restore_file looks for one at line 101.
ExternalCreate(f) ==
  /\ files[f] = "none"
  /\ files' = [files EXCEPT ![f] = Foreign]
  /\ UNCHANGED <<qfiles, records, clock, thr, nOps>>
  /\ UNCHANGED <<coordVars, scanVars>>
  /\ UNCHANGED <<ruleVars, filterVars>>

\* _generate_quarantine_path: the file's name and the clock reading
GenPath(f, now) == <<f.name, now>>

\* What is left of a call when it has ended: which call it was and how it
\* ended (res: "ok" a truthy value, "fail" False/None, "raised" an exception)
Ended(t, res) == [IdleThr EXCEPT !.op = t.op, !.id = t.id, !.res = res,
                                 !.raced = t.raced, !.gone = t.gone]

Return(i, res) == [thr EXCEPT ![i] = Ended(thr[i], res)]

\* a restore or delete ends without success; why is the failure that
\* occurred, res what the caller gets
Failed(i, res, why) ==
  [thr EXCEPT ![i] = [Ended(thr[i], res) EXCEPT !.why = why]]

\* Thread i returns "ok" from a terminal transition.  Another thread that is
\* inside a restore/delete of the same id and has already looked the record
\* up has raced with it (raced is an observer's note, the code keeps none).
ReturnTerminal(i) ==
  [j \in Threads |->
     IF j = i THEN Ended(thr[i], "ok")
     ELSE IF thr[j].pc \notin {"idle", "r_select", "d_select"}
             /\ thr[j].op \in {"restore", "delete"}
             /\ thr[j].id = thr[i].id
          THEN [thr[j] EXCEPT !.raced = TRUE]
          ELSE thr[j]]

\* The thread that takes the next call: the pool hands a call to any idle
\* thread, and which one makes no difference, so the first idle one takes it.
Free(i) == thr[i].pc = "idle" /\ \A j \in Threads : j < i => thr[j].pc # "idle"

\* a thread calls quarantine_file(f, match_info)
CallQuarantine(i, f) ==
  /\ Free(i)
  /\ nOps < MaxOps
  /\ nOps' = nOps + 1
  /\ thr' = [thr EXCEPT ![i] = [IdleThr EXCEPT !.op = "quarantine",
                                  !.pc = "q_check", !.file = f]]
  /\ UNCHANGED <<files, qfiles, records, clock>>
  /\ UNCHANGED <<coordVars, scanVars>>
  /\ UNCHANGED <<ruleVars, filterVars>>

\* lines 56-60: is_file(), then the storage path
QCheck(i) ==
  /\ thr[i].pc = "q_check"
  /\ thr' = IF files[thr[i].file] = "none"
            THEN Return(i, "fail")
            ELSE [thr EXCEPT ![i].pc = "q_move",
                             ![i].qpath = GenPath(thr[i].file, clock)]
  /\ UNCHANGED <<files, qfiles, records, clock, nOps>>
  /\ UNCHANGED <<coordVars, scanVars>>
  /\ UNCHANGED <<ruleVars, filterVars>>

\* lines 62-63: shutil.move, then quarantined_at.  The move renames over an existing destination file, or
\* fails (the source has gone, an I/O error).  The except clause of line 78
\* names json.JSONEncodeError, which does not exist, so any exception raised
\* inside the try leaves quarantine_file as an exception.
QMove(i, fails) ==
  /\ thr[i].pc = "q_move"
  /\ IF fails \/ files[thr[i].file] = "none"
     THEN /\ thr' = Return(i, "raised")
          /\ UNCHANGED <<files, qfiles>>
     ELSE /\ qfiles' = [qfiles EXCEPT ![thr[i].qpath] = files[thr[i].file]]
          /\ files' = [files EXCEPT ![thr[i].file] = "none"]
          /\ thr' = [thr EXCEPT ![i].pc = "q_insert", ![i].at = clock]
  /\ UNCHANGED <<records, clock, nOps>>
  /\ UNCHANGED <<coordVars, scanVars>>
  /\ UNCHANGED <<ruleVars, filterVars>>

\* lines 67-77: INSERT and commit.  quarantine_path is UNIQUE.  (hash is an
\* observer's note of the content the call moved into storage.)
QInsert(i, fails) ==
  /\ thr[i].pc = "q_insert"
  /\ IF fails \/ \E k \in 1..Len(records) : records[k].qpath = thr[i].qpath
     THEN /\ thr' = Return(i, "raised")
          /\ UNCHANGED records
     ELSE /\ records' = Append(records,
                 [orig |-> thr[i].file, qpath |-> thr[i].qpath,
                  hash |-> qfiles[thr[i].qpath], at |-> thr[i].at,
                  restored |-> FALSE, deleted |-> FALSE])
          /\ thr' = Return(i, "ok")
  /\ UNCHANGED <<files, qfiles, clock, nOps>>
  /\ UNCHANGED <<coordVars, scanVars>>
  /\ UNCHANGED <<ruleVars, filterVars>>

\* a thread calls restore_file(id)
CallRestore(i, id) ==
  /\ Free(i)
  /\ nOps < MaxOps
  /\ nOps' = nOps + 1
  /\ thr' = [thr EXCEPT ![i] = [IdleThr EXCEPT !.op = "restore",
                                  !.pc = "r_select", !.id = id]]
  /\ UNCHANGED <<files, qfiles, records, clock>>
  /\ UNCHANGED <<coordVars, scanVars>>
  /\ UNCHANGED <<ruleVars, filterVars>>

\* the row restore_file's SELECT finds (line 85)
RestoreFinds(id) == id \in 1..Len(records) /\ ~records[id].restored

\* lines 83-94
RSelect(i) ==
  /\ thr[i].pc = "r_select"
  /\ thr' = IF RestoreFinds(thr[i].id)
            THEN [thr EXCEPT ![i].pc = "r_check",
                             ![i].opath = records[thr[i].id].orig,
                             ![i].qpath = records[thr[i].id].qpath]
            ELSE Failed(i, "fail", IF thr[i].id \in 1..Len(records)
                                   THEN "conflict" ELSE "notfound")
  /\ UNCHANGED <<files, qfiles, records, clock, nOps>>
  /\ UNCHANGED <<coordVars, scanVars>>
  /\ UNCHANGED <<ruleVars, filterVars>>

\* lines 96-104: the storage file must exist, the original path be free
RCheck(i) ==
  /\ thr[i].pc = "r_check"
  /\ thr' = IF qfiles[thr[i].qpath] = "none"
            THEN Failed(i, "fail", "nofile")
            ELSE IF files[thr[i].opath] # "none"
            THEN Failed(i, "fail", "occupied")
            ELSE [thr EXCEPT ![i].pc = "r_move"]
  /\ UNCHANGED <<files, qfiles, records, clock, nOps>>
  /\ UNCHANGED <<coordVars, scanVars>>
  /\ UNCHANGED <<ruleVars, filterVars>>

\* lines 107-108: shutil.move back.  Its failures are OSErrors, which the
\* except clause of line 114 does not name: they leave restore_file.
RMove(i, fails) ==
  /\ thr[i].pc = "r_move"
  /\ IF fails \/ qfiles[thr[i].qpath] = "none"
     THEN /\ thr' = Failed(i, "raised", "io")
          /\ UNCHANGED <<files, qfiles>>
     ELSE /\ files' = [files EXCEPT ![thr[i].opath] = qfiles[thr[i].qpath]]
          /\ qfiles' = [qfiles EXCEPT ![thr[i].qpath] = "none"]
          /\ thr' = [thr EXCEPT ![i].pc = "r_update"]
  /\ UNCHANGED <<records, clock, nOps>>
  /\ UNCHANGED <<coordVars, scanVars>>
  /\ UNCHANGED <<ruleVars, filterVars>>

\* lines 109-116: UPDATE restored_at and commit; sqlite3.Error gives False
RUpdate(i, fails) ==
  /\ thr[i].pc = "r_update"
  /\ IF fails
     THEN /\ thr' = Failed(i, "fail", "io")
          /\ UNCHANGED records
     ELSE /\ records' = [records EXCEPT ![thr[i].id].restored = TRUE]
          /\ thr' = ReturnTerminal(i)
  /\ UNCHANGED <<files, qfiles, clock, nOps>>
  /\ UNCHANGED <<coordVars, scanVars>>
  /\ UNCHANGED <<ruleVars, filterVars>>

\* a thread calls delete_quarantined_file(id)
CallDelete(i, id) ==
  /\ Free(i)
  /\ nOps < MaxOps
  /\ nOps' = nOps + 1
  /\ thr' = [thr EXCEPT ![i] = [IdleThr EXCEPT !.op = "delete",
                                  !.pc = "d_select", !.id = id]]
  /\ UNCHANGED <<files, qfiles, records, clock>>
  /\ UNCHANGED <<coordVars, scanVars>>
  /\ UNCHANGED <<ruleVars, filterVars>>

\* the row delete_quarantined_file's SELECT finds (line 124)
DeleteFinds(id) == id \in 1..Len(records) /\ ~records[id].deleted

\* lines 122-132
DSelect(i) ==
  /\ thr[i].pc = "d_select"
  /\ thr' = IF DeleteFinds(thr[i].id)
            THEN [thr EXCEPT ![i].pc = "d_isfile",
                             ![i].qpath = records[thr[i].id].qpath]
            ELSE Failed(i, "fail", IF thr[i].id \in 1..Len(records)
                                   THEN "conflict" ELSE "notfound")
  /\ UNCHANGED <<files, qfiles, records, clock, nOps>>
  /\ UNCHANGED <<coordVars, scanVars>>
  /\ UNCHANGED <<ruleVars, filterVars>>

\* a delete that gives up when the storage file is not there
DIsFile_FailsWhenGone(i) ==
  /\ thr[i].pc = "d_isfile"
  /\ thr' = IF qfiles[thr[i].qpath] # "none"
            THEN [thr EXCEPT ![i].pc = "d_remove"]
            ELSE Failed(i, "fail", "nofile")
  /\ UNCHANGED <<files, qfiles, records, clock, nOps>>
  /\ UNCHANGED <<coordVars, scanVars>>
  /\ UNCHANGED <<ruleVars, filterVars>>

\* line 135: is the storage file there?
DIsFile(i) ==
  /\ thr[i].pc = "d_isfile"
  /\ thr' = IF qfiles[thr[i].qpath] # "none"
            THEN [thr EXCEPT ![i].pc = "d_remove"]
            ELSE [thr EXCEPT ![i].pc = "d_update", ![i].gone = TRUE]
  /\ UNCHANGED <<files, qfiles, records, clock, nOps>>
  /\ UNCHANGED <<coordVars, scanVars>>
  /\ UNCHANGED <<ruleVars, filterVars>>

\* line 136: os.remove; an OSError (the file has gone since) gives False
DRemove(i, fails) ==
  /\ thr[i].pc = "d_remove"
  /\ IF fails \/ qfiles[thr[i].qpath] = "none"
     THEN /\ thr' = Failed(i, "fail", "io")
          /\ UNCHANGED qfiles
     ELSE /\ qfiles' = [qfiles EXCEPT ![thr[i].qpath] = "none"]
          /\ thr' = [thr EXCEPT ![i].pc = "d_update"]
  /\ UNCHANGED <<files, records, clock, nOps>>
  /\ UNCHANGED <<coordVars, scanVars>>
  /\ UNCHANGED <<ruleVars, filterVars>>

\* lines 141-148: UPDATE deleted_at and commit; sqlite3.Error gives False
DUpdate(i, fails) ==
  /\ thr[i].pc = "d_update"
  /\ IF fails
     THEN /\ thr' = Failed(i, "fail", "io")
          /\ UNCHANGED records
     ELSE /\ records' = [records EXCEPT ![thr[i].id].deleted = TRUE]
          /\ thr' = ReturnTerminal(i)
  /\ UNCHANGED <<files, qfiles, clock, nOps>>
  /\ UNCHANGED <<coordVars, scanVars>>
  /\ UNCHANGED <<ruleVars, filterVars>>

StoreNext ==
  \/ Tick
  \/ \E f \in Orig : ExternalCreate(f)
  \/ \E i \in Threads, f \in Orig : CallQuarantine(i, f)
  \/ \E i \in Threads : QCheck(i)
  \/ \E i \in Threads, fails \in BOOLEAN : QMove(i, fails)
  \/ \E i \in Threads, fails \in BOOLEAN : QInsert(i, fails)
  \/ \E i \in Threads, id \in RecIds : CallRestore(i, id)
  \/ \E i \in Threads : RSelect(i)
  \/ \E i \in Threads : RCheck(i)
  \/ \E i \in Threads, fails \in BOOLEAN : RMove(i, fails)
  \/ \E i \in Threads, fails \in BOOLEAN : RUpdate(i, fails)
  \/ \E i \in Threads, id \in RecIds : CallDelete(i, id)
  \/ \E i \in Threads : DSelect(i)
  \/ \E i \in Threads : DIsFile(i)
  \/ \E i \in Threads, fails \in BOOLEAN : DRemove(i, fails)
  \/ \E i \in Threads, fails \in BOOLEAN : DUpdate(i, fails)

\* ================================================================ Scanner

\* The target directory holds a/x and b/x; os.walk yields them in this order.
DirTarget == [dir |-> "root", name |-> ""]
WalkOrder == <<FileA, FileB>>

\* what scan_path may be called on: the directory or one file
Targets == {DirTarget, FileA}

\* last_scan_times has no entry for the path
NoEntry == -1

\* What _scan_file will find for a file: whether _is_file_scannable accepts
\* it (size, extension, location) and how many rules match its content.
Props == [eligible : BOOLEAN, hits : 0..MaxHits]

\* ========================================================== YaraManager

\* The rule sources under rules_dir: two files of the same name, one of
\* them in a sub-directory, and a file of the other rule-source suffix.
TopYar == [dir |-> "", name |-> "r.yar"]
SubYar == [dir |-> "sub", name |-> "r.yar"]
TopYara == [dir |-> "", name |-> "s.yara"]
SourceFiles == {TopYar, SubYar, TopYara}

\* What a source file may hold: a valid text (a second one for the first
\* file) or one with a syntax error; "none": the file is absent.
Contents(f) == IF f = TopYar THEN {"none", "v1", "v2", "bad"}
               ELSE {"none", "v1", "bad"}
Trees == {t \in [SourceFiles -> {"none", "v1", "v2", "bad"}] :
            \A f \in SourceFiles : t[f] \in Contents(f)}
EmptyTree == [f \in SourceFiles |-> "none"]

\* A checksum is a sequence: <<>> is the string "", Digest(seq) the
\* hexdigest of the bytes seq fed to the hasher; NoneSum is None and
\* AbsentSum a sidecar file that does not exist.
Digest(seq) == <<"md5">> \o seq
EmptySum == <<>>
NoneSum == <<"None">>
AbsentSum == <<"absent">>

\* rglob("*.yar") (line 26), in the order the directory is listed
yar_files(t) == SelectSeq(<<TopYar, SubYar>>, LAMBDA f : t[f] # "none")

\* rglob("*.yara") (line 27)
yara_files(t) == SelectSeq(<<TopYara>>, LAMBDA f : t[f] # "none")

\* lines 23-34: the contents of the *.yar files are fed to the hasher one
\* after the other; neither the names nor the *.yara files are
calculate_rules_checksum(t) ==
  IF yar_files(t) = <<>> THEN EmptySum
  ELSE Digest([n \in 1..Len(yar_files(t)) |-> t[yar_files(t)[n]]])

\* line 40: sorted(yar_files + yara_files), paths compared part by part
rule_file_paths(t) ==
  SelectSeq(<<TopYar, TopYara, SubYar>>, LAMBDA f : t[f] # "none")

\* line 45: filepaths = {p.name: p}; of two paths with one name the later
\* one of rule_file_paths stays
filepaths(t) ==
  {rule_file_paths(t)[n] : n \in
     {m \in 1..Len(rule_file_paths(t)) :
        \A k \in (m + 1)..Len(rule_file_paths(t)) :
          rule_file_paths(t)[k].name # rule_file_paths(t)[m].name}}

\* A compiled rule set: the text of each file it was compiled from, and an
\* observer's note, src: the checksum of the sources at that time.
\* NoRules is None, and as a file on disk: no file.
NoRules == [texts |-> EmptyTree, src |-> NoneSum]

\* a compiled_rules.yarac that yara.load refuses
Unloadable == [texts |-> EmptyTree, src |-> <<"unloadable">>]

\* lines 36-60: yara.compile of the collected files; None when there is no
\* file or when one of the compiled files has a syntax error
compile_rules(t) ==
  IF rule_file_paths(t) = <<>> THEN NoRules
  ELSE IF \E f \in filepaths(t) : t[f] = "bad" THEN NoRules
  ELSE [texts |-> [f \in SourceFiles |->
                     IF f \in filepaths(t) THEN t[f] ELSE "none"],
        src |-> calculate_rules_checksum(t)]

\* The manager: pc ("new": __init__ before its load_rules, "idle", "save"
\* and "sidecar": before lines 98 and 99), _rules, _rules_checksum, the
\* checksum handed to _save_compiled_rules (cur), and observer's notes: the
\* calls made, the runs of _compile_rules, the loads from the cache, the
\* last operation ("edit" after a change of the sources), whether the last
\* load_rules was forced, and what the last check_for_updates_and_reload
\* returned.
NewMgr == [pc |-> "new", rules |-> NoRules, checksum |-> NoneSum,
           cur |-> NoneSum, calls |-> 0, compiles |-> 0, hits |-> 0,
           last |-> "new", forced |-> FALSE, ret |-> "none"]

\* mutant of CacheUsable: the sidecar is not compared
CacheUsable_AnySidecar(force, cur) ==
  ~force /\ artifact # NoRules /\ sidecar # AbsentSum

\* lines 67-69: the cache is tried
CacheUsable(force, cur) ==
  ~force /\ artifact # NoRules /\ sidecar # AbsentSum /\ sidecar = cur

\* load_rules(force_recompile), lines 64-90, as far as the call of
\* _save_compiled_rules; op is the call that runs it and ret what that call
\* will return
Load(force, op, ret) ==
  LET cur == calculate_rules_checksum(tree)
      compiled == compile_rules(tree)
      m == [mgr EXCEPT !.calls = @ + 1, !.last = op, !.forced = force,
                       !.ret = ret]
  IN IF CacheUsable(force, cur) /\ artifact # Unloadable
     THEN /\ mgr' = [m EXCEPT !.pc = "idle", !.rules = artifact,
                              !.checksum = cur, !.hits = @ + 1]
          /\ UNCHANGED <<artifact, sidecar>>
     ELSE IF compiled # NoRules
     THEN /\ mgr' = [m EXCEPT !.pc = "save", !.rules = compiled,
                              !.checksum = cur, !.cur = cur,
                              !.compiles = @ + 1]
          /\ UNCHANGED <<artifact, sidecar>>
     ELSE /\ mgr' = [m EXCEPT !.pc = "idle", !.rules = NoRules,
                              !.checksum = NoneSum, !.compiles = @ + 1]
          /\ artifact' = NoRules
          /\ sidecar' = AbsentSum

\* load_rules(force_recompile) called from outside, and from __init__
LoadRules(force) ==
  /\ mgr.pc \in {"new", "idle"}
  /\ mgr.pc = "new" => ~force
  /\ mgr.calls < MaxLoads
  /\ Load(force, "load", "none")
  /\ UNCHANGED <<tree, nEdits, yara_rules, scanner_rules>>
  /\ UNCHANGED <<coordVars, storeVars, scanVars, filterVars>>

\* check_for_updates_and_reload, lines 109-114
CheckForUpdates ==
  /\ mgr.pc = "idle"
  /\ mgr.calls < MaxLoads
  /\ IF calculate_rules_checksum(tree) # mgr.checksum
     THEN Load(TRUE, "check", "true")
     ELSE /\ mgr' = [mgr EXCEPT !.calls = @ + 1, !.last = "check",
                                !.ret = "false"]
          /\ UNCHANGED <<artifact, sidecar>>
  /\ UNCHANGED <<tree, nEdits, yara_rules, scanner_rules>>
  /\ UNCHANGED <<coordVars, storeVars, scanVars, filterVars>>

\* line 98: rules.save; an exception is logged at line 102 and the sidecar
\* is not written
SaveArtifact(fails) ==
  /\ mgr.pc = "save"
  /\ IF fails
     THEN /\ mgr' = [mgr EXCEPT !.pc = "idle"]
          /\ UNCHANGED artifact
     ELSE /\ mgr' = [mgr EXCEPT !.pc = "sidecar"]
          /\ artifact' = mgr.rules
  /\ UNCHANGED <<tree, sidecar, nEdits, yara_rules, scanner_rules>>
  /\ UNCHANGED <<coordVars, storeVars, scanVars, filterVars>>

\* line 99: checksum_path.write_text(checksum)
SaveSidecar(fails) ==
  /\ mgr.pc = "sidecar"
  /\ mgr' = [mgr EXCEPT !.pc = "idle"]
  /\ sidecar' = IF fails THEN sidecar ELSE mgr.cur
  /\ UNCHANGED <<tree, artifact, nEdits, yara_rules, scanner_rules>>
  /\ UNCHANGED <<coordVars, storeVars, scanVars, filterVars>>

\* the process stops, wherever the manager is, and a new process builds a
\* new manager over the same directory (lines 13-20)
Restart ==
  /\ mgr.pc # "new"
  /\ mgr.calls < MaxLoads
  /\ mgr' = [NewMgr EXCEPT !.calls = mgr.calls]
  /\ UNCHANGED <<tree, artifact, sidecar, nEdits, yara_rules, scanner_rules>>
  /\ UNCHANGED <<coordVars, storeVars, scanVars, filterVars>>

\* the updater or the user adds, removes or rewrites a rule source
EditTree(f, c) ==
  /\ nEdits < MaxEdits
  /\ tree[f] # c
  /\ tree' = [tree EXCEPT ![f] = c]
  /\ nEdits' = nEdits + 1
  /\ mgr' = [mgr EXCEPT !.last = "edit"]
  /\ UNCHANGED <<artifact, sidecar, yara_rules, scanner_rules>>
  /\ UNCHANGED <<coordVars, storeVars, scanVars, filterVars>>

\* compiled_rules.yarac becomes a file yara.load refuses (cut short, or
\* written by another version of the library)
DamageArtifact ==
  /\ nEdits < MaxEdits
  /\ artifact \notin {NoRules, Unloadable}
  /\ artifact' = Unloadable
  /\ nEdits' = nEdits + 1
  /\ UNCHANGED <<tree, sidecar, mgr, yara_rules, scanner_rules>>
  /\ UNCHANGED <<coordVars, storeVars, scanVars, filterVars>>

\* a manager about to be built over any rule sources, without a cache
CompilerInit ==
  /\ tree \in Trees
  /\ artifact = NoRules
  /\ sidecar = AbsentSum
  /\ mgr = NewMgr
  /\ nEdits = 0

\* the manager has compiled one valid source and written its cache
CompilerLoaded ==
  /\ tree = [EmptyTree EXCEPT ![TopYar] = "v1"]
  /\ artifact = compile_rules(tree)
  /\ sidecar = calculate_rules_checksum(tree)
  /\ mgr = [NewMgr EXCEPT !.pc = "idle", !.rules = artifact,
                           !.checksum = sidecar, !.cur = sidecar,
                           !.last = "load"]
  /\ nEdits = 0

\* the manager has found no source to compile
CompilerEmpty ==
  /\ tree = EmptyTree
  /\ artifact = NoRules
  /\ sidecar = AbsentSum
  /\ mgr = [NewMgr EXCEPT !.pc = "idle", !.last = "load"]
  /\ nEdits = 0

CompilerNext ==
  \/ \E force \in BOOLEAN : LoadRules(force)
  \/ CheckForUpdates
  \/ \E fails \in BOOLEAN : SaveArtifact(fails)
  \/ \E fails \in BOOLEAN : SaveSidecar(fails)
  \/ Restart
  \/ \E f \in SourceFiles : \E c \in Contents(f) : EditTree(f, c)
  \/ DamageArtifact

\* The rule sets YaraManager may hold: "none" is None (nothing compiled).
RuleSets == {"none", "r1", "r2"}

\* the candidate of _is_file_scannable before any is judged
NoCand == [regular |-> FALSE]

\* A _scan_file future: pc, the matches of rules.match (n) and how many the
\* loop of line 89 has handled (k), matches_found, whether rules.match
\* was called on the file and on which rule set, whether handling the
\* file failed (error: an observer's note) and whether line 114 wrote the
\* failure to the log (logged), and the st_mtime the file had when
\* rules.match read it (seen, an observer's note).
NoJob == [pc |-> "none", k |-> 0, n |-> 0, matched |-> FALSE, found |-> <<>>,
          ruleset |-> "none", error |-> FALSE, logged |-> FALSE,
          seen |-> NoEntry]

\* scan_path's frame, and observer's notes: scanned (the files rules.match
\* was called on), failed (the files whose handling failed), logged (those
\* of them line 114 wrote to the log), seen (the st_mtime each file had
\* when rules.match read it), done and outcome (the call has ended,
\* "returned" a summary or "raised"), active (the rule set YaraManager held
\* when the call was made).
NoSession == [pc |-> "idle", target |-> NoFile, incremental |-> FALSE,
              quarantine_matches |-> FALSE, files_to_scan |-> <<>>,
              total_files_scanned |-> 0, all_matches |-> <<>>,
              scanned |-> {}, failed |-> {}, logged |-> {},
              seen |-> [f \in Orig |-> NoEntry], done |-> FALSE,
              outcome |-> "none", active |-> "none"]

\* the scanner before its first scan_path call, all files clean and eligible
ScanIdle ==
  /\ session = NoSession
  /\ last_scan_times = [f \in Orig |-> NoEntry]
  /\ mtime = [f \in Orig |-> 0]
  /\ props = [f \in Orig |-> [eligible |-> TRUE, hits |-> 0]]
  /\ job = [f \in Orig |-> NoJob]
  /\ nScans = 0
  /\ yara_rules = "r1"
  /\ scanner_rules = "r1"
  /\ CompilerLoaded
  /\ cand = NoCand
  /\ verdict = "none"

\* the scanner before its first scan_path call, over any two files
ScanInit ==
  /\ session = NoSession
  /\ last_scan_times = [f \in Orig |-> NoEntry]
  /\ mtime = [f \in Orig |-> 0]
  /\ props \in [Orig -> Props]
  /\ job = [f \in Orig |-> NoJob]
  /\ nScans = 0
  /\ yara_rules = "r1"
  /\ scanner_rules = "r1"
  /\ CompilerLoaded
  /\ cand = NoCand
  /\ verdict = "none"

\* YaraManager.__init__ has loaded the rules (or found none to compile) and
\* Scanner.__init__ has taken get_rules(); one file with hits, one clean
RulesInit ==
  /\ session = NoSession
  /\ last_scan_times = [f \in Orig |-> NoEntry]
  /\ mtime = [f \in Orig |-> 0]
  /\ props \in {pr \in [Orig -> Props] :
                  pr[FileA].eligible /\ pr[FileA].hits > 0 /\ pr[FileB].hits = 0}
  /\ job = [f \in Orig |-> NoJob]
  /\ nScans = 0
  /\ yara_rules \in {"none", "r1"}
  /\ scanner_rules = yara_rules
  /\ IF yara_rules = "none" THEN CompilerEmpty ELSE CompilerLoaded
  /\ cand = NoCand
  /\ verdict = "none"

\* load_rules (called by check_for_updates_and_reload, the CLI's update and
\* the scheduled update task) replaces YaraManager._rules by the newly
\* compiled rule set, or by None when the compilation failed.  Nothing
\* writes Scanner.rules after __init__.
ReloadRules(rs) ==
  /\ yara_rules # rs
  /\ yara_rules' = rs
  /\ UNCHANGED scanner_rules
  /\ UNCHANGED compilerVars
  /\ UNCHANGED <<coordVars, storeVars, scanVars, filterVars>>

Range(q) == {q[k] : k \in 1..Len(q)}

\* the pool thread that runs the job of file f
Worker(f) == IF f = FileA THEN 1 ELSE 2

\* a skip that looks at the entry only, not at the modification time
Skipped_EntryOnly(f) == last_scan_times[f] # NoEntry

\* line 138: the path has an entry and the file is not newer than it
Skipped(f) ==
  last_scan_times[f] # NoEntry /\ mtime[f] <= last_scan_times[f]

Listed(inc, f) == files[f] # "none" /\ ~(inc /\ Skipped(f))

\* lines 135-141: the walk of a directory target
Enumerate(inc) == SelectSeq(WalkOrder, LAMBDA f : Listed(inc, f))

\* the file is modified: its st_mtime grows
Touch(f) ==
  /\ files[f] # "none"
  /\ mtime[f] < MaxMtime
  /\ mtime' = [mtime EXCEPT ![f] = mtime[f] + 1]
  /\ UNCHANGED <<session, last_scan_times, props, job, nScans>>
  /\ UNCHANGED <<coordVars, storeVars>>
  /\ UNCHANGED <<ruleVars, filterVars>>

\* scan_path(target, incremental, quarantine_matches), lines 127-146: the
\* files to scan are listed and one _scan_file future per file is submitted.
\* A target that is neither a file nor a directory returns at once.
ScanStart(target, inc, qm) ==
  /\ session.pc = "idle"
  /\ nScans < MaxScans
  /\ nScans' = nScans + 1
  /\ LET missing == target # DirTarget /\ files[target] = "none"
         fts == IF target = DirTarget THEN Enumerate(inc)
                ELSE IF missing THEN <<>> ELSE <<target>>
     IN /\ session' = [NoSession EXCEPT
                         !.pc = IF missing THEN "idle" ELSE "fold",
                         !.target = target,
                         !.incremental = inc,
                         !.quarantine_matches = qm,
                         !.files_to_scan = fts,
                         !.done = missing,
                         !.outcome = IF missing THEN "returned" ELSE "none",
                         !.active = yara_rules]
        /\ job' = [f \in Orig |-> IF f \in Range(fts)
                                  THEN [NoJob EXCEPT !.pc = "queued"]
                                  ELSE NoJob]
  /\ UNCHANGED <<last_scan_times, mtime, props>>
  /\ UNCHANGED <<coordVars, storeVars>>
  /\ UNCHANGED <<ruleVars, filterVars>>

\* _scan_file, lines 80-82: _is_file_scannable.  A file that has gone since
\* it was listed is not a file at line 48: [] is returned and nothing is
\* written.
WFilter(f) ==
  /\ job[f].pc = "queued"
  /\ job' = [job EXCEPT ![f] =
               IF files[f] = "none"
               THEN [@ EXCEPT !.pc = "done", !.error = TRUE]
               ELSE IF props[f].eligible
               THEN [@ EXCEPT !.pc = "match"]
               ELSE [@ EXCEPT !.pc = "done"]]
  /\ UNCHANGED <<session, last_scan_times, mtime, props, nScans>>
  /\ UNCHANGED <<coordVars, storeVars>>
  /\ UNCHANGED <<ruleVars, filterVars>>

\* the st_mtime of the file rules.match reads (noted in incremental scans)
SeenAt(f) == IF session.incremental THEN mtime[f] ELSE NoEntry

\* lines 85-88: without rules the file is left unmatched; otherwise
\* self.rules.match.  An exception (a timeout, the file has gone) is caught
\* at line 113 and the matches found so far, none, are returned.  (How many
\* rules hit a file is props, whichever rule set matches it.)
WMatch(f, fails) ==
  /\ job[f].pc = "match"
  /\ job' = [job EXCEPT ![f] =
               IF scanner_rules = "none"
               THEN [@ EXCEPT !.pc = "done"]
               ELSE IF fails \/ files[f] = "none"
               THEN [@ EXCEPT !.pc = "done", !.matched = TRUE,
                              !.seen = SeenAt(f),
                              !.ruleset = scanner_rules, !.error = TRUE,
                              !.logged = TRUE]
               ELSE IF props[f].hits = 0
               THEN [@ EXCEPT !.pc = "done", !.matched = TRUE,
                              !.seen = SeenAt(f),
                              !.ruleset = scanner_rules]
               ELSE [@ EXCEPT !.pc = "hit", !.matched = TRUE,
                              !.seen = SeenAt(f),
                              !.ruleset = scanner_rules,
                              !.n = props[f].hits]]
  /\ UNCHANGED <<session, last_scan_times, mtime, props, nScans>>
  /\ UNCHANGED <<coordVars, storeVars>>
  /\ UNCHANGED <<ruleVars, filterVars>>

\* where the loop of line 89 goes after match k + 1
AfterHit(j) == [j EXCEPT !.k = j.k + 1,
                         !.pc = IF j.k + 1 = j.n THEN "done" ELSE "hit"]

\* lines 89-106: the next match gets its match_info with action "Detected";
\* with quarantine_matches the job calls quarantine_file (call: how that
\* call ended, an observer's note)
WHit(f) ==
  /\ job[f].pc = "hit"
  /\ LET info == [file_path |-> f, rule |-> job[f].k + 1,
                  action |-> "Detected", call |-> "none"]
         j == [job[f] EXCEPT !.found = Append(@, info)]
     IN IF session.quarantine_matches
        THEN /\ job' = [job EXCEPT ![f] = [j EXCEPT !.pc = "quar"]]
             /\ thr' = [thr EXCEPT ![Worker(f)] =
                          [IdleThr EXCEPT !.op = "quarantine",
                                          !.pc = "q_check", !.file = f]]
        ELSE /\ job' = [job EXCEPT ![f] = AfterHit(j)]
             /\ UNCHANGED thr
  /\ UNCHANGED <<files, qfiles, records, clock, nOps>>
  /\ UNCHANGED <<session, last_scan_times, mtime, props, nScans>>
  /\ UNCHANGED coordVars
  /\ UNCHANGED <<ruleVars, filterVars>>

\* lines 106-111: what match_info["action"] becomes after the call.  A
\* returned value is formatted into the text whatever it is (a path or
\* None); only an exception gives "Failed to quarantine".
ActionAfter(res) ==
  CASE res = "ok" -> "Quarantined to <path>"
    [] res = "fail" -> "Quarantined to None"
    [] OTHER -> "Failed to quarantine"

\* quarantine_file has ended: the match's action is set, the loop goes on
WQuarantined(f) ==
  /\ job[f].pc = "quar"
  /\ thr[Worker(f)].pc = "idle"
  /\ LET last == Len(job[f].found)
         res == thr[Worker(f)].res
         j == [job[f] EXCEPT !.found[last].action = ActionAfter(res),
                             !.found[last].call = res]
     IN job' = [job EXCEPT ![f] = AfterHit(j)]
  /\ thr' = [thr EXCEPT ![Worker(f)] = IdleThr]
  /\ UNCHANGED <<files, qfiles, records, clock, nOps>>
  /\ UNCHANGED <<session, last_scan_times, mtime, props, nScans>>
  /\ UNCHANGED coordVars
  /\ UNCHANGED <<ruleVars, filterVars>>

\* lines 148-151: the result of the next future, in the order of submission
ScanFold ==
  /\ session.pc = "fold"
  /\ session.total_files_scanned < Len(session.files_to_scan)
  /\ LET f == session.files_to_scan[session.total_files_scanned + 1]
     IN /\ job[f].pc = "done"
        /\ session' = [session EXCEPT
                         !.total_files_scanned = @ + 1,
                         !.all_matches = @ \o job[f].found,
                         !.scanned = IF job[f].matched
                                     THEN @ \cup {f} ELSE @,
                         !.failed = IF job[f].error
                                    THEN @ \cup {f} ELSE @,
                         !.logged = IF job[f].logged
                                    THEN @ \cup {f} ELSE @,
                         !.seen[f] = job[f].seen]
        /\ job' = [job EXCEPT ![f] = NoJob]
  /\ UNCHANGED <<last_scan_times, mtime, props, nScans>>
  /\ UNCHANGED <<coordVars, storeVars>>
  /\ UNCHANGED <<ruleVars, filterVars>>

\* lines 153-159: an incremental scan records the st_mtime of every listed
\* file that still exists; scan_path returns
ScanReturn ==
  /\ session.pc = "fold"
  /\ session.total_files_scanned = Len(session.files_to_scan)
  /\ last_scan_times' =
       [f \in Orig |->
          IF /\ session.incremental
             /\ f \in Range(session.files_to_scan)
             /\ files[f] # "none"
          THEN mtime[f] ELSE last_scan_times[f]]
  /\ session' = [session EXCEPT !.pc = "idle", !.done = TRUE,
                                 !.outcome = "returned"]
  /\ UNCHANGED <<mtime, props, job, nScans>>
  /\ UNCHANGED <<coordVars, storeVars>>
  /\ UNCHANGED <<ruleVars, filterVars>>

\* another process removes the file
Vanish(f) ==
  /\ files[f] # "none"
  /\ files' = [files EXCEPT ![f] = "none"]
  /\ UNCHANGED <<qfiles, records, clock, thr, nOps>>
  /\ UNCHANGED <<coordVars, scanVars>>
  /\ UNCHANGED <<ruleVars, filterVars>>

\* line 138, outside any try: the walk has listed f, f has an entry in
\* last_scan_times, and f is removed before file_path.stat(): stat raises
\* and the exception leaves scan_path
ScanStartRaise(f) ==
  /\ session.pc = "idle"
  /\ nScans < MaxScans
  /\ nScans' = nScans + 1
  /\ files[f] # "none"
  /\ last_scan_times[f] # NoEntry
  /\ files' = [files EXCEPT ![f] = "none"]
  /\ session' = [NoSession EXCEPT !.target = DirTarget,
                                  !.incremental = TRUE,
                                  !.failed = {f},
                                  !.done = TRUE,
                                  !.outcome = "raised",
                                  !.active = yara_rules]
  /\ job' = [g \in Orig |-> NoJob]
  /\ UNCHANGED <<qfiles, records, clock, thr, nOps>>
  /\ UNCHANGED <<last_scan_times, mtime, props>>
  /\ UNCHANGED coordVars
  /\ UNCHANGED <<ruleVars, filterVars>>

\* lines 48-54, called at line 81 before the try of line 84: f is a readable
\* file at lines 48 and 50 and is removed before file_path.stat() of line
\* 54; the exception ends the future
WFilterRaise(f) ==
  /\ job[f].pc = "queued"
  /\ files[f] # "none"
  /\ files' = [files EXCEPT ![f] = "none"]
  /\ job' = [job EXCEPT ![f] = [@ EXCEPT !.pc = "raised", !.error = TRUE]]
  /\ UNCHANGED <<qfiles, records, clock, thr, nOps>>
  /\ UNCHANGED <<session, last_scan_times, mtime, props, nScans>>
  /\ UNCHANGED coordVars
  /\ UNCHANGED <<ruleVars, filterVars>>

\* line 150: future.result() raises what the future raised, and the
\* exception leaves scan_path; the other futures stay in the pool
ScanFoldRaise ==
  /\ session.pc = "fold"
  /\ session.total_files_scanned < Len(session.files_to_scan)
  /\ LET f == session.files_to_scan[session.total_files_scanned + 1]
     IN /\ job[f].pc = "raised"
        /\ session' = [session EXCEPT
                         !.pc = "idle",
                         !.total_files_scanned = @ + 1,
                         !.failed = @ \cup {f},
                         !.done = TRUE,
                         !.outcome = "raised"]
        /\ job' = [job EXCEPT ![f] = NoJob]
  /\ UNCHANGED <<last_scan_times, mtime, props, nScans>>
  /\ UNCHANGED <<coordVars, storeVars>>
  /\ UNCHANGED <<ruleVars, filterVars>>

\* the files of files_to_scan before position n
Before(fts, n) == {fts[m] : m \in 1..(n - 1)}

\* lines 154-156: file number n of files_to_scan exists at line 155 and is
\* removed before file_path.stat() of line 156; the files before it have
\* their entries written, and the exception leaves scan_path
ScanReturnRaise(n) ==
  /\ session.pc = "fold"
  /\ session.total_files_scanned = Len(session.files_to_scan)
  /\ session.incremental
  /\ n \in 1..Len(session.files_to_scan)
  /\ LET f == session.files_to_scan[n]
     IN /\ files[f] # "none"
        /\ files' = [files EXCEPT ![f] = "none"]
        /\ last_scan_times' =
             [g \in Orig |->
                IF g \in Before(session.files_to_scan, n) /\ files[g] # "none"
                THEN mtime[g] ELSE last_scan_times[g]]
        /\ session' = [session EXCEPT !.pc = "idle", !.done = TRUE,
                                       !.failed = @ \cup {f},
                                       !.outcome = "raised"]
  /\ UNCHANGED <<qfiles, records, clock, thr, nOps>>
  /\ UNCHANGED <<mtime, props, job, nScans>>
  /\ UNCHANGED coordVars
  /\ UNCHANGED <<ruleVars, filterVars>>

\* ------------------------------------------ Scanner._is_file_scannable

\* A string is a sequence of pieces; str.startswith is the prefix test.
StartsWith(str, p) == Len(p) <= Len(str) /\ SubSeq(str, 1, Len(p)) = p

\* str.lower() on the suffixes of the candidates
Lower(sfx) == IF sfx = ".TMP" THEN ".tmp" ELSE sfx

\* line 71: system_paths, as str(p) gives them
system_paths == {<<"/", "proc">>, <<"/", "sys">>, <<"/", "dev">>}

\* the candidates' paths without the suffix: /proc/x, /processes/x, /sys/x
\* and /home/x
CandPaths == {<<"/", "proc", "/", "x">>, <<"/", "proc", "esses", "/", "x">>,
              <<"/", "sys", "/", "x">>, <<"/", "home", "/", "x">>}

Suffixes == {".txt", ".tmp", ".TMP", ".yar", ".yara"}

\* the suffixes _compile_rules and _calculate_rules_checksum collect as
\* rule sources (yara_manager.py, lines 26-27 and 38-39)
RuleSourceExts == {".yar", ".yara"}

\* the bytes of a megabyte (line 54)
MB == 1024 * 1024

\* the configured max_file_size_mb
Ceilings == 1..MaxSizeMb

\* st_size of the candidates: around each ceiling
Sizes == {n * MB + d : n \in Ceilings, d \in {-1, 0, 1}}

\* mutant of ExceedsCeiling: the megabytes are counted by floor division
ExceedsCeiling_Floor(st_size, max_mb) == st_size \div MB > max_mb

\* lines 54-55: st_size / (1024 * 1024) > max_file_size_mb; the division is
\* exact for sizes below 2^53, so the quotient exceeds the ceiling when its
\* whole part does, or equals it with a remainder
ExceedsCeiling(st_size, max_mb) ==
  \/ st_size \div MB > max_mb
  \/ st_size \div MB = max_mb /\ st_size % MB > 0

\* what the configured extension lists may hold
ListedExts == {".txt", ".tmp", ".yar"}

\* A candidate file and the configuration it is judged under: is_file(),
\* os.access(R_OK), its st_size and max_file_size_mb, its path and suffix,
\* allowed_extensions and blocked_extensions.
Candidates ==
  [regular : BOOLEAN, readable : BOOLEAN, st_size : Sizes, max_mb : Ceilings,
   path : CandPaths, suffix : Suffixes,
   allowed : SUBSET ListedExts, blocked : SUBSET ListedExts]

\* str(file_path)
StrOf(c) == Append(c.path, c.suffix)

\* lines 46-76
is_file_scannable(c) ==
  IF ~c.regular THEN FALSE
  ELSE IF ~c.readable THEN FALSE
  ELSE IF ExceedsCeiling(c.st_size, c.max_mb) THEN FALSE
  ELSE IF c.allowed # {} /\ Lower(c.suffix) \notin c.allowed THEN FALSE
  ELSE IF c.blocked # {} /\ Lower(c.suffix) \in c.blocked THEN FALSE
  ELSE IF c.suffix = ".yar" \/ c.suffix = ".yarac" THEN FALSE
  ELSE IF \E p \in system_paths : StartsWith(StrOf(c), p) THEN FALSE
  ELSE TRUE

\* any candidate under any configuration, not yet judged
FilterInit ==
  /\ session = NoSession
  /\ last_scan_times = [f \in Orig |-> NoEntry]
  /\ mtime = [f \in Orig |-> 0]
  /\ props = [f \in Orig |-> [eligible |-> TRUE, hits |-> 0]]
  /\ job = [f \in Orig |-> NoJob]
  /\ nScans = 0
  /\ yara_rules = "r1"
  /\ scanner_rules = "r1"
  /\ CompilerLoaded
  /\ cand \in Candidates
  /\ verdict = "none"

\* _scan_file calls _is_file_scannable on the candidate (line 81)
JudgeCandidate ==
  /\ verdict = "none"
  /\ verdict' = IF is_file_scannable(cand) THEN "accept" ELSE "reject"
  /\ UNCHANGED cand
  /\ UNCHANGED <<coordVars, storeVars, scanVars, ruleVars>>

ScanNext ==
  \/ Tick
  \/ \E f \in Orig : Touch(f)
  \/ \E target \in Targets, inc \in BOOLEAN, qm \in BOOLEAN :
       ScanStart(target, inc, qm)
  \/ \E f \in Orig : WFilter(f)
  \/ \E f \in Orig, fails \in BOOLEAN : WMatch(f, fails)
  \/ \E f \in Orig : WHit(f)
  \/ \E i \in Threads : QCheck(i)
  \/ \E i \in Threads, fails \in BOOLEAN : QMove(i, fails)
  \/ \E i \in Threads, fails \in BOOLEAN : QInsert(i, fails)
  \/ \E f \in Orig : WQuarantined(f)
  \/ ScanFold
  \/ ScanReturn

\* The rows of the table, each with its id (the rowid, given in the order of
\* the INSERTs); restored_at, deleted_at: the column is not NULL.
Rows == [k \in 1..Len(records) |->
           [id |-> k, original_path |-> records[k].orig,
            quarantine_path |-> records[k].qpath,
            quarantined_at |-> records[k].at,
            restored_at |-> records[k].restored,
            deleted_at |-> records[k].deleted]]

\* a filter that forgets restored_at
IsActive_NotDeleted(row) == ~row.deleted_at

\* WHERE restored_at IS NULL AND deleted_at IS NULL
IsActive(row) == ~row.restored_at /\ ~row.deleted_at

\* list_quarantined_files: the rows WHERE restored_at IS NULL AND deleted_at
\* IS NULL, as the table scan yields them (by rowid; there is no ORDER BY)
list_quarantined_files == SelectSeq(Rows, IsActive)

\* ------------------------------------------------------- specifications

Init == CoordInit /\ StoreInit /\ ScanIdle

\* the scan coordinator
Spec == Init /\ [][CoordNext]_vars

\* the quarantine store, its calls overlapping on NThreads threads
StoreSpec == Init /\ [][StoreNext]_vars

\* the quarantine store used by one caller: each call returns before the
\* next is made
SeqStoreNext ==
  \/ Tick
  \/ \E f \in Orig : ExternalCreate(f)
  \/ \E f \in Orig : CallQuarantine(1, f)
  \/ QCheck(1)
  \/ \E fails \in BOOLEAN : QMove(1, fails)
  \/ \E fails \in BOOLEAN : QInsert(1, fails)
  \/ \E id \in RecIds : CallRestore(1, id)
  \/ RSelect(1)
  \/ RCheck(1)
  \/ \E fails \in BOOLEAN : RMove(1, fails)
  \/ \E fails \in BOOLEAN : RUpdate(1, fails)
  \/ \E id \in RecIds : CallDelete(1, id)
  \/ DSelect(1)
  \/ DIsFile(1)
  \/ \E fails \in BOOLEAN : DRemove(1, fails)
  \/ \E fails \in BOOLEAN : DUpdate(1, fails)

SeqStoreSpec == Init /\ [][SeqStoreNext]_vars

\* scan_path, its jobs and their quarantine calls
ScanSpecInit == CoordInit /\ StoreInit /\ ScanInit

ScanSpec == ScanSpecInit /\ [][ScanNext]_vars

\* scan_path called with quarantine_matches off: what is left is the
\* enumeration, the jobs and last_scan_times
IncrNext ==
  \/ \E f \in Orig : Touch(f)
  \/ \E target \in Targets, inc \in BOOLEAN : ScanStart(target, inc, FALSE)
  \/ \E f \in Orig : WFilter(f)
  \/ \E f \in Orig, fails \in BOOLEAN : WMatch(f, fails)
  \/ \E f \in Orig : WHit(f)
  \/ ScanFold
  \/ ScanReturn

IncrSpec == ScanSpecInit /\ [][IncrNext]_vars

\* scan_path while the rule compiler replaces the active rule set
RulesSpecInit == CoordInit /\ StoreInit /\ RulesInit

RulesNext ==
  \/ \E rs \in RuleSets : ReloadRules(rs)
  \/ \E target \in Targets, inc \in BOOLEAN, qm \in BOOLEAN :
       ScanStart(target, inc, qm)
  \/ \E f \in Orig : WFilter(f)
  \/ \E f \in Orig, fails \in BOOLEAN : WMatch(f, fails)
  \/ \E f \in Orig : WHit(f)
  \/ \E i \in Threads : QCheck(i)
  \/ \E i \in Threads, fails \in BOOLEAN : QMove(i, fails)
  \/ \E i \in Threads, fails \in BOOLEAN : QInsert(i, fails)
  \/ \E f \in Orig : WQuarantined(f)
  \/ ScanFold
  \/ ScanReturn

RulesSpec == RulesSpecInit /\ [][RulesNext]_vars

\* scan_path without quarantine while other processes remove files
FaultNext ==
  \/ \E f \in Orig : Vanish(f)
  \/ \E target \in Targets, inc \in BOOLEAN : ScanStart(target, inc, FALSE)
  \/ \E f \in Orig : ScanStartRaise(f)
  \/ \E f \in Orig : WFilter(f)
  \/ \E f \in Orig : WFilterRaise(f)
  \/ \E f \in Orig, fails \in BOOLEAN : WMatch(f, fails)
  \/ \E f \in Orig : WHit(f)
  \/ ScanFold
  \/ ScanFoldRaise
  \/ ScanReturn
  \/ \E n \in 1..Cardinality(Orig) : ScanReturnRaise(n)

FaultSpec == ScanSpecInit /\ [][FaultNext]_vars

\* the rule manager over a directory of rule sources that others change
CompilerSpecInit ==
  /\ CoordInit
  /\ StoreInit
  /\ session = NoSession
  /\ last_scan_times = [f \in Orig |-> NoEntry]
  /\ mtime = [f \in Orig |-> 0]
  /\ props = [f \in Orig |-> [eligible |-> TRUE, hits |-> 0]]
  /\ job = [f \in Orig |-> NoJob]
  /\ nScans = 0
  /\ yara_rules = "none"
  /\ scanner_rules = "none"
  /\ CompilerInit
  /\ cand = NoCand
  /\ verdict = "none"

CompilerSpec == CompilerSpecInit /\ [][CompilerNext]_vars

\* _is_file_scannable applied to any candidate
FilterSpecInit == CoordInit /\ StoreInit /\ FilterInit

FilterNext == JudgeCandidate

FilterSpec == FilterSpecInit /\ [][FilterNext]_vars

\* =============================================================== claims

\* C1: at most one Scanner.scan_path execution started by the adapter's
\* sessions is in progress at any time, under any interleaving of start_scan,
\* pause, resume, cancel and scan completion.
C1_AtMostOneScanPath ==
  Cardinality({t \in TaskIds : tasks[t].run = "running"}) <= 1

\* C2: a start_scan called while the state is not Idle is rejected: no task
\* is created, the state, the stats and the pause/cancel flags are unchanged,
\* and the rejection is reported as an error event.
C2_BusyStartRejected ==
  [][(lastCall'.n # lastCall.n /\ lastCall'.op = "start" /\ state # "Idle")
       => /\ ~lastCall'.ok
          /\ tasks' = tasks
          /\ scan_task' = scan_task
          /\ state' = state
          /\ stats' = stats
          /\ pause_event' = pause_event
          /\ cancel_event' = cancel_event
          /\ events' = Append(events, Event("error", 0))]_vars

\* C2 witness: a start_scan was rejected while a session was paused
C2_Witness ==
  /\ lastCall.op = "start"
  /\ ~lastCall.ok
  /\ state = "Paused"
  /\ pause_event
  /\ events[Len(events)].type = "error"

\* C3: every change of the coordinator state is one of Idle->Scanning,
\* Scanning->Paused, Paused->Scanning, Scanning->Idle, Paused->Idle,
\* Scanning->Error.
C3_OnlyListedTransitions ==
  [][state' # state =>
       <<state, state'>> \in {<<"Idle", "Scanning">>, <<"Scanning", "Paused">>,
                              <<"Paused", "Scanning">>, <<"Scanning", "Idle">>,
                              <<"Paused", "Idle">>, <<"Scanning", "Error">>}]_vars

\* C4: while the coordinator is Paused the session makes no progress: no
\* further file is folded into its aggregate and no `done` event is emitted.
C4_PausedNoProgress ==
  [][(state = "Paused" /\ scan_task # 0)
       => /\ tasks'[scan_task].folded = tasks[scan_task].folded
          /\ \A k \in (Len(events) + 1)..Len(events') :
                events'[k].type # "done"]_vars

\* C5: every QuarantineRecord has at most one of restored_at and deleted_at
\* set.
C5_AtMostOneTerminalStamp ==
  \A k \in 1..Len(records) : ~(records[k].restored /\ records[k].deleted)

\* C6: delete(id) fails whenever the record is missing or already terminal
\* (restored or deleted) when delete looks it up, and then changes neither
\* the records nor any file.
C6_DeleteFailsOnTerminal ==
  [][\A i \in Threads :
       (/\ thr[i].pc = "d_select"
        /\ thr'[i] # thr[i]
        /\ \/ thr[i].id \notin 1..Len(records)
           \/ records[thr[i].id].restored
           \/ records[thr[i].id].deleted)
       => /\ thr'[i].pc = "idle"
          /\ thr'[i].res = "fail"
          /\ records' = records
          /\ files' = files
          /\ qfiles' = qfiles]_vars

\* C7: restore(id) fails whenever the record is missing or already terminal
\* (restored or deleted) when restore looks it up, and a restore that
\* returns failure has not moved the file (the record, the storage file and
\* the original path are as they were).
C7_RestoreFailsCleanly ==
  [][\A i \in Threads :
       /\ (/\ thr[i].pc = "r_select"
           /\ thr'[i] # thr[i]
           /\ \/ thr[i].id \notin 1..Len(records)
              \/ records[thr[i].id].restored
              \/ records[thr[i].id].deleted)
          => /\ thr'[i].pc = "idle"
             /\ thr'[i].res = "fail"
             /\ records' = records
             /\ files' = files
             /\ qfiles' = qfiles
       /\ (/\ thr[i].op = "restore"
           /\ thr[i].pc # "idle"
           /\ thr'[i].pc = "idle"
           /\ thr'[i].res = "fail")
          => thr[i].pc # "r_update"]_vars

\* C8: of two terminal-state transitions (restore or delete) on the same
\* record id that run concurrently, at most one reports success: no call
\* succeeds after another call on its id succeeded between its lookup and
\* its return.
C8_ConcurrentTransitionsOneSuccess ==
  \A i \in Threads :
    ~(/\ thr[i].pc = "idle"
      /\ thr[i].op \in {"restore", "delete"}
      /\ thr[i].res = "ok"
      /\ thr[i].raced)

\* C9: quarantine never leaves a file in quarantine storage that has no
\* QuarantineRecord (a file whose quarantine call is between its move and
\* its insert is not yet left).
C9_NoOrphanInStorage ==
  \A p \in Stor :
    qfiles[p] # "none" =>
      \/ \E k \in 1..Len(records) : records[k].qpath = p
      \/ \E i \in Threads : thr[i].pc = "q_insert" /\ thr[i].qpath = p

\* C10: every quarantine call gets a storage path that no earlier (recorded)
\* or concurrent quarantine call has used.
C10_UniqueStoragePaths ==
  \A i \in Threads :
    thr[i].pc \in {"q_move", "q_insert"} =>
      /\ \A k \in 1..Len(records) : records[k].qpath # thr[i].qpath
      /\ \A j \in Threads \ {i} :
           thr[j].pc \in {"q_move", "q_insert"} => thr[j].qpath # thr[i].qpath

\* C11: round trip.  When restore_file(id) returns success, the original
\* path of the record holds the content that quarantine_file moved away for
\* that record, no file is left at the record's storage path, the record is
\* marked restored, and list_quarantined_files no longer has the record.
C11_RoundTrip ==
  [][\A i \in Threads :
       (/\ thr[i].op = "restore"
        /\ thr[i].pc # "idle"
        /\ thr'[i].pc = "idle"
        /\ thr'[i].res = "ok")
       => /\ files'[thr[i].opath] = records[thr[i].id].hash
          /\ qfiles'[thr[i].qpath] = "none"
          /\ records'[thr[i].id].restored
          /\ \A k \in 1..Len(list_quarantined_files') :
                list_quarantined_files'[k].id # thr[i].id]_vars

\* C12: restore_file never overwrites.  If the original path is occupied
\* when restore checks it, the call fails and changes no file and no record;
\* and if a file has appeared at the original path between that check and
\* the move, the move leaves the occupying file and the storage file as they
\* are and the call ends without success.
C12_RestoreNeverOverwrites ==
  [][\A i \in Threads :
       /\ (/\ thr[i].pc = "r_check"
           /\ thr'[i] # thr[i]
           /\ files[thr[i].opath] # "none")
          => /\ thr'[i].pc = "idle"
             /\ thr'[i].res = "fail"
             /\ files' = files
             /\ qfiles' = qfiles
             /\ records' = records
       /\ (/\ thr[i].pc = "r_move"
           /\ thr'[i] # thr[i]
           /\ files[thr[i].opath] # "none")
          => /\ thr'[i].pc = "idle"
             /\ thr'[i].res # "ok"
             /\ files' = files
             /\ qfiles' = qfiles
             /\ records' = records]_vars

\* C13: the outcome of a failed restore_file or delete_quarantined_file tells
\* the caller which failure occurred: two calls that failed for different
\* reasons (record not found, state conflict, storage file missing, original
\* path occupied, I/O failure) ended with different outcomes.
C13_FailuresDistinguishable ==
  \A i, j \in Threads :
    (/\ thr[i].why # "none"
     /\ thr[j].why # "none"
     /\ thr[i].why # thr[j].why)
    => thr[i].res # thr[j].res

\* C14: quarantine_file, restore_file and delete_quarantined_file report
\* every failure as a returned value: no call ends with an exception.
C14_NoExceptionEscapes ==
  \A i \in Threads : thr[i].res # "raised"

\* C15 as stated: delete_quarantined_file(id) of an active record whose
\* storage file is already absent from disk succeeds and marks the record
\* deleted.
C15_DeleteOfAbsentFileSucceeds ==
  [][\A i \in Threads :
       /\ (/\ thr[i].pc = "d_isfile"
           /\ thr'[i].pc # thr[i].pc
           /\ qfiles[thr[i].qpath] = "none")
          => thr'[i].pc = "d_update"
       /\ (/\ thr[i].pc = "d_update"
           /\ thr[i].gone
           /\ thr'[i].pc # thr[i].pc
           /\ ~records[thr[i].id].restored
           /\ ~records[thr[i].id].deleted)
          => /\ thr'[i].res = "ok"
             /\ records'[thr[i].id].deleted]_vars

\* C15, amended: the absence of the storage file does not make
\* delete_quarantined_file fail.  The call skips the removal and goes on to
\* the record update; it returns success with the record marked deleted
\* unless that update fails, and then it returns failure with the record
\* left as it was.
C15_AbsentFileDoesNotFailDelete ==
  [][\A i \in Threads :
       /\ (/\ thr[i].pc = "d_isfile"
           /\ thr'[i].pc # thr[i].pc
           /\ qfiles[thr[i].qpath] = "none")
          => /\ thr'[i].pc = "d_update"
             /\ thr'[i].gone
       /\ (/\ thr[i].pc = "d_update"
           /\ thr[i].gone
           /\ thr'[i].pc # thr[i].pc
           /\ ~records[thr[i].id].restored
           /\ ~records[thr[i].id].deleted)
          => /\ thr'[i].pc = "idle"
             /\ files' = files
             /\ qfiles' = qfiles
             /\ \/ /\ thr'[i].res = "ok"
                   /\ records' = [records EXCEPT ![thr[i].id].deleted = TRUE]
                \/ /\ thr'[i].res = "fail"
                   /\ thr'[i].why = "io"
                   /\ records' = records]_vars

\* C15 witness: a delete that found the storage file of an active record
\* absent has returned success and the record is marked deleted
C15_Witness ==
  \E i \in Threads :
    /\ thr[i].pc = "idle"
    /\ thr[i].op = "delete"
    /\ thr[i].gone
    /\ thr[i].res = "ok"
    /\ records[thr[i].id].deleted
    /\ ~records[thr[i].id].restored
    /\ qfiles[records[thr[i].id].qpath] = "none"

HasHit(f) ==
  \E k \in 1..Len(session.all_matches) : session.all_matches[k].file_path = f

ActiveRecordsOf(f) ==
  {k \in 1..Len(records) :
     records[k].orig = f /\ ~records[k].restored /\ ~records[k].deleted}

\* C17: after a scan_path call with quarantine_matches on has completed,
\* every file of the session with at least one rule hit is absent from its
\* original location and has exactly one active quarantine record, however
\* many rules it matched; the session's files without a hit (ineligible ones
\* among them) are untouched and have no record.
C17_HitFilesQuarantinedOnce ==
  (session.done /\ session.quarantine_matches)
  => \A f \in Range(session.files_to_scan) :
       IF HasHit(f)
       THEN /\ files[f] = "none"
            /\ Cardinality(ActiveRecordsOf(f)) = 1
       ELSE /\ files[f] = ContentOf(f)
            /\ \A k \in 1..Len(records) : records[k].orig # f

\* the action of a match record says the file was quarantined
SaysQuarantined(m) ==
  m.action \in {"Quarantined to <path>", "Quarantined to None"}

\* C18: the action of every match record of a session reflects the
\* containment result: it says quarantined only if the quarantine call moved
\* the file and stored a record, it says quarantine-failed whenever the call
\* did not succeed (a failure reported by return value included), and it is
\* "Detected" when quarantine_matches is off.
C18_ActionReflectsContainment ==
  \A k \in 1..Len(session.all_matches) :
    LET m == session.all_matches[k]
    IN /\ SaysQuarantined(m) => m.call = "ok"
       /\ m.call \in {"fail", "raised"} => m.action = "Failed to quarantine"
       /\ ~session.quarantine_matches => m.action = "Detected"

\* C19: with incremental on and a directory target, scan_path leaves a file
\* of the directory out of the files to scan exactly when last_scan_times
\* has an entry for its path and the file's modification time is not later
\* than the entry; so a path with no entry is never skipped and a file
\* modified after its recorded scan is scanned again.
C19_SkipIffUnchangedSinceEntry ==
  [][(nScans' = nScans + 1
      /\ session'.incremental
      /\ session'.target = DirTarget)
     => \A f \in Orig :
          files[f] # "none" =>
            /\ (f \notin Range(session'.files_to_scan))
                 <=> (/\ last_scan_times[f] # NoEntry
                      /\ mtime[f] <= last_scan_times[f])
            /\ last_scan_times[f] = NoEntry
                 => f \in Range(session'.files_to_scan)
            /\ last_scan_times[f] < mtime[f]
                 => f \in Range(session'.files_to_scan)]_vars

\* C19 witness: an incremental scan of the directory has skipped a/x, which
\* is unchanged since its recorded scan, and listed b/x, which was modified
\* after its recorded scan
C19_Witness ==
  /\ session.pc = "fold"
  /\ session.incremental
  /\ session.target = DirTarget
  /\ files[FileA] # "none"
  /\ last_scan_times[FileA] # NoEntry
  /\ mtime[FileA] <= last_scan_times[FileA]
  /\ last_scan_times[FileB] # NoEntry
  /\ mtime[FileB] > last_scan_times[FileB]
  /\ session.files_to_scan = <<FileB>>

\* C20: when a session ends, last_scan_times changes only for files that
\* were actually scanned in it (rules.match was called on them): the entry
\* of a skipped file is unchanged and a file rejected by the eligibility
\* filter gets no entry.
C20_CacheWrittenOnlyForScanned ==
  [][\A f \in Orig :
       last_scan_times'[f] # last_scan_times[f] => f \in session.scanned]_vars

\* C21: every file matched in a session that started after the rule
\* compiler swapped the active rule set is matched against the rule set
\* that was active when the session started, not an earlier one; and a
\* session started while no rule set is active yields no match.
C21_SessionsUseActiveRules ==
  /\ \A f \in Orig :
       (job[f].matched /\ session.active # "none")
         => job[f].ruleset = session.active
  /\ session.active = "none" =>
       /\ session.all_matches = <<>>
       /\ \A f \in Orig : ~job[f].matched

\* C22: when no rule set is active, a scan completes normally with no match,
\* quarantines nothing and returns its summary with the count of the files
\* considered.
C22_NoRulesNoMatches ==
  /\ (session.pc # "idle" /\ session.active = "none")
       => /\ session.all_matches = <<>>
          /\ \A f \in Orig : job[f].found = <<>>
          /\ \A i \in Threads : thr[i].op # "quarantine"
  /\ (session.done /\ session.active = "none")
       => /\ session.outcome = "returned"
          /\ session.all_matches = <<>>
          /\ session.total_files_scanned = Len(session.files_to_scan)

\* C23: a failure while handling one file (the match timing out or raising,
\* the file going away between its listing and the eligibility check or the
\* cache update) does not abort the session, which returns its summary, and
\* every file whose handling failed is recorded as a per-file error.
C23_FileFailuresDoNotAbort ==
  /\ session.outcome # "raised"
  /\ session.failed \subseteq session.logged

\* C24: after cancel() was accepted for a session, that session submits no
\* further file to the worker pool, wherever scan_path is when the cancel
\* arrives.
C24_NoSubmissionAfterCancel ==
  [][\A t \in TaskIds :
       tasks[t].cancelReq => tasks'[t].submitted = tasks[t].submitted]_vars

\* the events of session t that carry results
ResultEvents(t) ==
  {n \in 1..Len(events) : /\ events[n].sess = t
                          /\ events[n].type \in {"match", "progress", "done"}}

\* C25: the results of a cancelled session are discarded: no match, progress
\* or done event of that session is ever in the channel, and the step that
\* ends the session leaves the counts as they are, also when scan_path
\* completes after the cancel.
C25_CancelledResultsDiscarded ==
  [][\A t \in TaskIds :
       tasks[t].cancelReq =>
         /\ ResultEvents(t)' = {}
         /\ (tasks'[t].pc # tasks[t].pc => stats' = stats)]_vars

\* a cancelled session has ended and its scan_path has returned a match
C25_Witness ==
  \E t \in TaskIds : /\ tasks[t].cancelReq
                     /\ tasks[t].pc = "finished"
                     /\ tasks[t].run = "returned"
                     /\ tasks[t].matches > 0
                     /\ ResultEvents(t) = {}

\* C26: cancel() is idempotent: a cancel() made directly after an accepted
\* cancel() changes no state of the coordinator, puts no event (so no error)
\* in the channel and cancels no task.
C26_SecondCancelChangesNothing ==
  [][(/\ lastCall.op = "cancel" /\ lastCall.ok
      /\ lastCall'.n = lastCall.n + 1
      /\ lastCall'.op = "cancel")
       => UNCHANGED <<state, pause_event, cancel_event, scan_task, stats,
                      events, tasks>>]_vars

\* a second cancel() has been made directly after an accepted one, while
\* the cancelled task had not yet ended
C26_Witness ==
  /\ lastCall.op = "cancel" /\ ~lastCall.ok
  /\ cancel_event
  /\ state = "Idle"
  /\ Len(events) >= 2
  /\ events[Len(events)].type = "info"
  /\ \E t \in TaskIds : tasks[t].cancelReq /\ tasks[t].pc # "finished"

\* C27: pause() in a state other than Scanning and resume() in a state other
\* than Paused leave the state unchanged and are reported as errors in the
\* channel, not silently ignored.
C27_InvalidPauseResumeReported ==
  [][(/\ lastCall'.n = lastCall.n + 1
      /\ \/ lastCall'.op = "pause" /\ state # "Scanning"
         \/ lastCall'.op = "resume" /\ state # "Paused")
       => /\ state' = state
          /\ events' = Append(events, Event("error", 0))]_vars

\* the events of type ty of session t
EventsOf(t, ty) ==
  {n \in 1..Len(events) : events[n].sess = t /\ events[n].type = ty}

\* C28: every accepted session that was not cancelled has, when it has
\* ended, exactly one progress event and exactly one done event in the
\* channel, whatever it found, and the done event is the last event of the
\* session.
C28_OneProgressOneDone ==
  \A t \in TaskIds :
    (tasks[t].pc = "finished" /\ ~tasks[t].cancelReq) =>
      /\ Cardinality(EventsOf(t, "progress")) = 1
      /\ Cardinality(EventsOf(t, "done")) = 1
      /\ \A n \in 1..Len(events) :
           events[n].sess = t => \E d \in EventsOf(t, "done") : n <= d

\* C29: the number of events buffered in the channel never exceeds a fixed
\* bound: the channel has a capacity, and an event is added only while the
\* channel holds fewer events than that.
C29_ChannelBounded ==
  [][Len(events') > Len(events) =>
       /\ QueueMaxsize > 0
       /\ Len(events) < QueueMaxsize
       /\ Len(events') <= QueueMaxsize]_vars

\* the components of a path string: the pieces between the separators
RECURSIVE PartsFrom(_, _, _)
PartsFrom(str, n, cur) ==
  LET out == IF cur = <<>> THEN <<>> ELSE <<cur>>
  IN IF n > Len(str) THEN out
     ELSE IF str[n] = "/" THEN out \o PartsFrom(str, n + 1, <<>>)
     ELSE PartsFrom(str, n + 1, Append(cur, str[n]))

\* the path lies under the directory: the directory's components are the
\* first components of the path
Under(str, dir) == StartsWith(PartsFrom(str, 1, <<>>), PartsFrom(dir, 1, <<>>))

\* the first rule of the ordered table that matches the candidate
FirstRule(c) ==
  CASE ~(c.regular /\ c.readable) -> 1
    [] c.st_size > c.max_mb * MB -> 2
    [] c.allowed # {} /\ Lower(c.suffix) \notin c.allowed -> 3
    [] Lower(c.suffix) \in c.blocked -> 4
    [] c.suffix \in RuleSourceExts \cup {".yarac"} -> 5
    [] \E p \in system_paths : Under(StrOf(c), p) -> 6
    [] OTHER -> 7

\* C30: _is_file_scannable returns the decision of the first matching rule
\* of the ordered table (rules 1 to 6 reject, rule 7 accepts), where a path
\* is under a protected directory by its components, so that /processes/x
\* is not under /proc.
C30_FilterFollowsTable ==
  verdict # "none" =>
    (verdict = "accept" <=> FirstRule(cand) = 7)

\* C31: with a ceiling of N megabytes a file of exactly N * 1024 * 1024
\* bytes passes the size check of _is_file_scannable and a file of one byte
\* more is rejected, whatever else holds of the file.
C31_SizeBoundary ==
  verdict # "none" =>
    /\ cand.st_size = cand.max_mb * MB + 1 => verdict = "reject"
    /\ cand.st_size = cand.max_mb * MB =>
         (verdict = "accept" <=>
            is_file_scannable([cand EXCEPT !.st_size = cand.max_mb * MB - 1]))

\* a file exactly at the ceiling has been accepted that is rejected with
\* one byte more
C31_Witness ==
  /\ verdict = "accept"
  /\ cand.st_size = cand.max_mb * MB
  /\ ~is_file_scannable([cand EXCEPT !.st_size = cand.max_mb * MB + 1])

\* C32: a file whose extension is one of the rule-source extensions the
\* rule compiler collects is rejected by the eligibility filter, whatever
\* the allow-list and the block-list hold.
C32_RuleSourcesRejected ==
  (verdict # "none" /\ cand.suffix \in RuleSourceExts) => verdict = "reject"

\* C33: the fingerprint covers every rule source the compiler would
\* compile: adding, removing or changing any of them changes the
\* fingerprint (so that check_for_updates_and_reload reloads).
C33_FingerprintCoversSources ==
  [][tree' # tree =>
       calculate_rules_checksum(tree') # calculate_rules_checksum(tree)]_vars

\* C34: a check_for_updates_and_reload that directly follows another, with
\* no change of the rule sources in between, returns false and compiles
\* nothing, whatever the sources are.
C34_RepeatedCheckIsQuiet ==
  [][(mgr.last = "check" /\ mgr'.last = "check"
        /\ mgr'.calls = mgr.calls + 1)
       => (mgr'.ret = "false" /\ mgr'.compiles = mgr.compiles)]_vars

\* a step in which load_rules ran
LoadRan ==
  /\ mgr'.calls = mgr.calls + 1
  /\ mgr'.last = "load" \/ mgr'.ret = "true"

\* C35: compilation fails closed: when load_rules runs while a rule source
\* with a syntax error is in the directory it ends with no active rule set
\* and with neither compiled_rules.yarac nor its sidecar on disk; and the
\* rule set it leaves active is never built from only some of the sources.
C35_CompilationFailsClosed ==
  [][LoadRan =>
       /\ (\E f \in SourceFiles : tree[f] = "bad") =>
            (mgr'.rules = NoRules /\ artifact' = NoRules
               /\ sidecar' = AbsentSum)
       /\ mgr'.rules # NoRules => mgr'.rules.texts = tree]_vars

C37_CacheCoherent ==
  (sidecar # AbsentSum /\ artifact \notin {NoRules, Unloadable})
    => artifact.src = sidecar

\* C38: while the latest accepted session has neither finished nor been
\* cancelled, the coordinator state is Scanning or Paused: the late end of
\* an earlier, cancelled session does not set it to Idle.
C38_NewerSessionUndisturbed ==
  \A t \in TaskIds :
    (/\ scan_task = t
     /\ tasks[t].pc \in {"created", "awaiting"}
     /\ ~tasks[t].cancelReq)
      => state \in {"Scanning", "Paused"}

\* C39: between the calls of the store, every record that
\* list_quarantined_files returns has its storage file on disk, and no
\* record that is not marked restored has had its file moved back to the
\* original path, also after calls whose record update failed.
C39_ListedRecordsHaveFiles ==
  (\A i \in Threads : thr[i].pc = "idle") =>
    /\ \A k \in 1..Len(list_quarantined_files) :
         qfiles[list_quarantined_files[k].quarantine_path] # "none"
    /\ \A k \in 1..Len(records) :
         (~records[k].restored /\ ~records[k].deleted)
           => files[records[k].orig] # records[k].hash

\* C40: the modification time an incremental scan stores for a file it
\* matched is never later than the modification time the file had when it
\* was matched, so that a change made after the match is scanned by the
\* next incremental scan.
C40_CacheNotAheadOfMatch ==
  (session.done /\ session.outcome = "returned" /\ session.incremental) =>
    \A f \in session.scanned :
      files[f] # "none" => last_scan_times[f] <= session.seen[f]

====
